---- MODULE Spec2Model ----
(***************************************************************************)
(* Model of the meme_launcher program (src/programs/lib.rs): the Launch    *)
(* record, the two instruction handlers initialize_launch and buy_tokens,  *)
(* the pricing helper calculate_price, and the two ledgers the handlers    *)
(* drive through cross-program calls (lamports, token mints and accounts). *)
(*                                                                         *)
(* Integers are scaled: u64 is the range 0..U64Max and u128 the range      *)
(* 0..U128Max with U128Max + 1 = (U64Max + 1)^2, so that a product of two  *)
(* u64 values always fits the wide type and a product of three need not,   *)
(* exactly as with 64 and 128 bits.                                        *)
(*                                                                         *)
(* An instruction is one atomic step: the account constraints of its       *)
(* #[derive(Accounts)] struct, then the handler body on a working copy of  *)
(* the accounts, each cross-program call either applying its effect or     *)
(* refusing. The working copy replaces the accounts only when the handler  *)
(* returns Ok. The mint authority is the address derived from the launch   *)
(* key. Rent and transaction fees are not modelled.                        *)
(*                                                                         *)
(* Specifications:                                                         *)
(*   Spec          one launch slot and one mint, a refusable mint call     *)
(*   SpecPaid      Spec with the price of each successful buy remembered   *)
(*   SpecPrice     calculate_price alone, on every scaled u64 triple       *)
(*   SpecStored    Spec from stored launches with any is_active            *)
(*   SpecTwo       two launch slots and two mints                          *)
(*   SpecOpen      one launch, mints created by others with any authority, *)
(*                 transfers between holders, buys of half the u64 range   *)
(*   SpecLedger    the same environment with paid buys of single amounts   *)
(*   SpecInflight  buys submitted together and executed in either order    *)
(***************************************************************************)
EXTENDS Integers, Sequences, FiniteSets, TLC

\* ---------------------------------------------------------------- bounds
U64Max == 7
MaxAmount == 1
MaxRatio == 2
MaxInitialSupply == 1
StartLamports == 2

U128Max == (U64Max + 1) * (U64Max + 1) - 1

Users == {"alice", "bob"}
LaunchIds == {"L1"}
MintIds == {"M1"}
Metas == {<<"Doge2", "DOGE2">>}
InitialSupplies == (0..MaxInitialSupply) \cup {U64Max}
Ratios == 0..MaxRatio
Amounts == 0..MaxAmount
Faults == {"none", "mint"}
NoPrice == 0 - 1

VARIABLES
    launches,         \* launch key -> Launch record (accounts owned by the program)
    mints,            \* mint key -> [supply, mint_authority]
    token_accounts,   \* <<mint, owner>> -> amount (associated token accounts)
    lamports,         \* user -> balance of the payment currency
    overflow_checks,  \* whether the build traps on integer overflow
    last,             \* the outcome of the most recent instruction
    bought,           \* history: launch key -> sum of the amounts of its successful buys
    paid,             \* history: launch key -> amount -> price of the latest successful buy
    pq,               \* inputs of the price query under evaluation
    pr,               \* results of the price query
    pending,          \* buy_tokens transactions submitted and not yet executed
    log               \* what the executed ones read and wrote, in execution order

ledger == <<launches, mints, token_accounts, lamports>>
history == <<bought, paid>>
inflight == <<pending, log>>
vars == <<launches, mints, token_accounts, lamports, overflow_checks, last, bought, paid, pq, pr,
         pending, log>>

\* ------------------------------------------------------------ data model

\* struct Launch
Launch(creator, mint, name, symbol, initial_supply, total_supply, curve_ratio, is_active) ==
    [creator |-> creator, mint |-> mint, name |-> name, symbol |-> symbol,
     initial_supply |-> initial_supply, total_supply |-> total_supply,
     curve_ratio |-> curve_ratio, is_active |-> is_active]

\* the zeroed account data `init` allocates before the handler body runs
ZeroLaunch == Launch("", "", "", "", 0, 0, 0, FALSE)

\* the program-derived address seeds = [b"mint_authority", launch.key()]
mint_authority(l) == <<"mint_authority", l>>

\* the accounts an instruction works on
St == [launches |-> launches, mints |-> mints,
       token_accounts |-> token_accounts, lamports |-> lamports]

Holding(st, m, u) ==
    IF <<m, u>> \in DOMAIN st.token_accounts THEN st.token_accounts[<<m, u>>] ELSE 0

\* a handler in progress: the working accounts, the Result so far, and the
\* step that was refused ("none" while every step went through)
Running(st) == [st |-> st, result |-> "Ok", failed |-> "none", price |-> 0]
Refused(r, step, code) == [r EXCEPT !.result = code, !.failed = step]

\* ------------------------------------------------------------- pricing

PriceOk(v) == [ok |-> TRUE, val |-> v]
PriceErr == [ok |-> FALSE, val |-> 0]

\* u128::checked_mul
checked_mul(a, b) == IF a * b > U128Max THEN PriceErr ELSE PriceOk(a * b)

\* a narrowing that keeps the low bits (`as u64`) in place of try_into
try_into_u64_truncating(v) == PriceOk(v % (U64Max + 1))

\* u128 -> u64 try_into
try_into_u64(v) == IF v > U64Max THEN PriceErr ELSE PriceOk(v)

\* the product without the amount factor
calculate_price_per_unit(current_supply, amount, curve_ratio) ==
    LET p1 == checked_mul(current_supply, curve_ratio) IN
    IF ~p1.ok THEN PriceErr ELSE try_into_u64(p1.val)

calculate_price(current_supply, amount, curve_ratio) ==
    LET p1 == checked_mul(current_supply, curve_ratio) IN
    IF ~p1.ok THEN PriceErr
    ELSE LET p2 == checked_mul(p1.val, amount) IN
         IF ~p2.ok THEN PriceErr ELSE try_into_u64(p2.val)

\* ------------------------------------------------- cross-program calls

\* system_instruction::transfer through invoke: `passed` are the account
\* infos handed to invoke; the destination must be among them
system_transfer(st, from, to, passed, amount) ==
    IF \/ to \notin passed
       \/ st.lamports[from] < amount
       \/ (from # to /\ st.lamports[to] + amount > U64Max)
    THEN [ok |-> FALSE, st |-> st]
    ELSE LET debited == [st.lamports EXCEPT ![from] = @ - amount] IN
         [ok |-> TRUE,
          st |-> [st EXCEPT !.lamports = [debited EXCEPT ![to] = @ + amount]]]

\* a mint_to whose additions wrap instead of being refused
token_mint_to_wrapping(st, m, owner, authority, amount, rejected) ==
    IF rejected \/ st.mints[m].mint_authority # authority
    THEN [ok |-> FALSE, st |-> st]
    ELSE [ok |-> TRUE,
          st |-> [st EXCEPT !.token_accounts[<<m, owner>>] = (@ + amount) % (U64Max + 1),
                            !.mints[m].supply = (@ + amount) % (U64Max + 1)]]

\* token::mint_to: the authority must be the mint's, and neither the
\* destination amount nor the mint's supply may overflow u64
token_mint_to(st, m, owner, authority, amount, rejected) ==
    IF \/ rejected
       \/ st.mints[m].mint_authority # authority
       \/ st.token_accounts[<<m, owner>>] + amount > U64Max
       \/ st.mints[m].supply + amount > U64Max
    THEN [ok |-> FALSE, st |-> st]
    ELSE [ok |-> TRUE,
          st |-> [st EXCEPT !.token_accounts[<<m, owner>>] = @ + amount,
                            !.mints[m].supply = @ + amount]]

\* ---------------------------------------------------- initialize_launch

\* #[derive(Accounts)] InitializeLaunch: launch and mint are `init` (they
\* must be unused and are created), the new mint's authority is the
\* launch's derived address, and the creator's token account is created
\* for the new mint
InitializeLaunch_accounts(st, l, creator, m) ==
    IF l \in DOMAIN st.launches THEN Refused(Running(st), "accounts", "AccountInUse")
    ELSE IF m \in DOMAIN st.mints THEN Refused(Running(st), "accounts", "AccountInUse")
    ELSE Running([st EXCEPT
            !.launches = @ @@ (l :> ZeroLaunch),
            !.mints = @ @@ (m :> [supply |-> 0, mint_authority |-> mint_authority(l)]),
            !.token_accounts = @ @@ (<<m, creator>> :> 0)])

\* the Launch fields with the running counter left at zero
init_write_launch_zero_supply(r, l, creator, m, meta, initial_supply, curve_ratio) ==
    IF r.result # "Ok" THEN r
    ELSE [r EXCEPT !.st.launches[l] =
            Launch(creator, m, meta[1], meta[2], initial_supply, 0, curve_ratio, TRUE)]

\* the Launch fields without line 29: is_active stays as allocated
init_write_launch_inactive(r, l, creator, m, meta, initial_supply, curve_ratio) ==
    IF r.result # "Ok" THEN r
    ELSE [r EXCEPT !.st.launches[l] =
            Launch(creator, m, meta[1], meta[2], initial_supply, initial_supply,
                   curve_ratio, ZeroLaunch.is_active)]

\* lines 21-29: the Launch fields
init_write_launch(r, l, creator, m, meta, initial_supply, curve_ratio) ==
    IF r.result # "Ok" THEN r
    ELSE [r EXCEPT !.st.launches[l] =
            Launch(creator, m, meta[1], meta[2], initial_supply, initial_supply,
                   curve_ratio, TRUE)]

\* the initial mint with its Result dropped instead of propagated by `?`
init_mint_unchecked(r, l, creator, m, initial_supply, fault) ==
    IF r.result # "Ok" THEN r
    ELSE LET c == token_mint_to(r.st, m, creator, mint_authority(l), initial_supply,
                                fault = "mint") IN
         IF c.ok THEN [r EXCEPT !.st = c.st] ELSE [r EXCEPT !.failed = "mint"]

\* lines 32-44: the initial mint to the creator, signed by the derived authority
init_mint(r, l, creator, m, initial_supply, fault) ==
    IF r.result # "Ok" THEN r
    ELSE LET c == token_mint_to(r.st, m, creator, mint_authority(l), initial_supply,
                                fault = "mint") IN
         IF c.ok THEN [r EXCEPT !.st = c.st] ELSE Refused(r, "mint", "MintFailed")

initialize_launch(st, l, creator, m, meta, initial_supply, curve_ratio, fault) ==
    LET r0 == InitializeLaunch_accounts(st, l, creator, m)
        r1 == init_write_launch(r0, l, creator, m, meta, initial_supply, curve_ratio)
    IN  init_mint(r1, l, creator, m, initial_supply, fault)

\* ------------------------------------------------------------ buy_tokens

\* #[derive(Accounts)] BuyTokens: launch and mint must be existing accounts
\* of their types (neither creator nor mint is tied to the launch), and the
\* buyer's token account for `mint` is created if needed
BuyTokens_accounts(st, l, buyer, m) ==
    IF l \notin DOMAIN st.launches THEN Refused(Running(st), "accounts", "AccountNotInitialized")
    ELSE IF m \notin DOMAIN st.mints THEN Refused(Running(st), "accounts", "AccountNotInitialized")
    ELSE IF <<m, buyer>> \in DOMAIN st.token_accounts THEN Running(st)
    ELSE Running([st EXCEPT !.token_accounts = @ @@ (<<m, buyer>> :> 0)])

\* the handler without the require!
buy_require_active_missing(r, l) == r

\* line 54: require!(launch.is_active, LaunchError::LaunchInactive)
buy_require_active(r, l) ==
    IF r.result # "Ok" THEN r
    ELSE IF r.st.launches[l].is_active THEN r
    ELSE Refused(r, "active", "LaunchInactive")

\* the price recomputed from the asset ledger: the supply of the launch's mint
buy_price_from_ledger(r, l, amount) ==
    calculate_price(r.st.mints[r.st.launches[l].mint].supply, amount,
                    r.st.launches[l].curve_ratio)

\* line 57: the price, from the launch's total_supply before the buy
buy_price(r, l, amount) ==
    calculate_price(r.st.launches[l].total_supply, amount, r.st.launches[l].curve_ratio)

\* the payment sent to the creator account of the context instead of
\* launch.creator
buy_pay_to_account(r, l, buyer, creator_account, amount, fault) ==
    IF r.result # "Ok" THEN r
    ELSE LET price == calculate_price(r.st.launches[l].total_supply, amount,
                                      r.st.launches[l].curve_ratio) IN
         IF ~price.ok THEN Refused(r, "price", "InvalidPriceCalculation")
         ELSE LET c == system_transfer(r.st, buyer, creator_account,
                                       {buyer, creator_account}, price.val)
                  paying == [r EXCEPT !.price = price.val] IN
              IF c.ok THEN [paying EXCEPT !.st = c.st]
              ELSE Refused(paying, "transfer", "TransferFailed")

\* lines 57-72: price, then the payment from the buyer to launch.creator
buy_pay(r, l, buyer, creator_account, amount, fault) ==
    IF r.result # "Ok" THEN r
    ELSE LET price == buy_price(r, l, amount) IN
         IF ~price.ok THEN Refused(r, "price", "InvalidPriceCalculation")
         ELSE LET c == system_transfer(r.st, buyer, r.st.launches[l].creator,
                                       {buyer, creator_account}, price.val)
                  paying == [r EXCEPT !.price = price.val] IN
              IF c.ok THEN [paying EXCEPT !.st = c.st]
              ELSE Refused(paying, "transfer", "TransferFailed")

\* the mint with its Result dropped instead of propagated by `?`
buy_mint_unchecked(r, l, buyer, m, amount, fault) ==
    IF r.result # "Ok" THEN r
    ELSE LET c == token_mint_to(r.st, m, buyer, mint_authority(l), amount,
                                fault = "mint") IN
         IF c.ok THEN [r EXCEPT !.st = c.st] ELSE [r EXCEPT !.failed = "mint"]

\* lines 75-87: the mint to the buyer's token account
buy_mint(r, l, buyer, m, amount, fault) ==
    IF r.result # "Ok" THEN r
    ELSE LET c == token_mint_to(r.st, m, buyer, mint_authority(l), amount,
                                fault = "mint") IN
         IF c.ok THEN [r EXCEPT !.st = c.st] ELSE Refused(r, "mint", "MintFailed")

\* `=` in place of `+=`
buy_add_supply_assign(r, l, amount) ==
    IF r.result # "Ok" THEN r
    ELSE [r EXCEPT !.st.launches[l].total_supply = amount]

\* `-=` in place of `+=`, wrapping below zero
buy_add_supply_minus(r, l, amount) ==
    IF r.result # "Ok" THEN r
    ELSE [r EXCEPT !.st.launches[l].total_supply = (@ - amount) % (U64Max + 1)]

\* the increment applied to initial_supply as well
buy_add_supply_both_counters(r, l, amount) ==
    IF r.result # "Ok" THEN r
    ELSE LET sum == r.st.launches[l].total_supply + amount IN
         IF sum <= U64Max
         THEN [r EXCEPT !.st.launches[l].total_supply = sum,
                        !.st.launches[l].initial_supply = (@ + amount) % (U64Max + 1)]
         ELSE Refused(r, "add_supply", "ArithmeticOverflow")

\* line 89: launch.total_supply += amount; on overflow the build either
\* traps (the instruction fails) or wraps
buy_add_supply(r, l, amount) ==
    IF r.result # "Ok" THEN r
    ELSE LET sum == r.st.launches[l].total_supply + amount IN
         IF sum <= U64Max THEN [r EXCEPT !.st.launches[l].total_supply = sum]
         ELSE IF overflow_checks THEN Refused(r, "add_supply", "ArithmeticOverflow")
         ELSE [r EXCEPT !.st.launches[l].total_supply = sum % (U64Max + 1)]

\* the handler with the mint issued before the payment
buy_tokens_mint_first(st, l, buyer, creator_account, m, amount, fault) ==
    LET r0 == BuyTokens_accounts(st, l, buyer, m)
        r1 == buy_require_active(r0, l)
        r2 == buy_mint(r1, l, buyer, m, amount, fault)
        r3 == buy_pay(r2, l, buyer, creator_account, amount, fault)
    IN  buy_add_supply(r3, l, amount)

buy_tokens(st, l, buyer, creator_account, m, amount, fault) ==
    LET r0 == BuyTokens_accounts(st, l, buyer, m)
        r1 == buy_require_active(r0, l)
        r2 == buy_pay(r1, l, buyer, creator_account, amount, fault)
        r3 == buy_mint(r2, l, buyer, m, amount, fault)
    IN  buy_add_supply(r3, l, amount)

\* ---------------------------------------------------------------- actions

\* an instruction's account changes persist only when it returns Ok
Commit(r) ==
    LET s == IF r.result = "Ok" THEN r.st ELSE St IN
    /\ launches' = s.launches
    /\ mints' = s.mints
    /\ token_accounts' = s.token_accounts
    /\ lamports' = s.lamports

NoCall == [op |-> "none", launch |-> "", caller |-> "", mint |-> "", amount |-> 0,
           price |-> 0, result |-> "Ok", failed |-> "none"]

Called(op, l, caller, m, amount, r) ==
    [op |-> op, launch |-> l, caller |-> caller, mint |-> m, amount |-> amount,
     price |-> r.price, result |-> r.result, failed |-> r.failed]

Init ==
    /\ launches = <<>>
    /\ mints = <<>>
    /\ token_accounts = <<>>
    /\ lamports = [u \in Users |-> StartLamports]
    /\ overflow_checks \in BOOLEAN
    /\ last = NoCall
    /\ bought = <<>>
    /\ paid = <<>>
    /\ pq = [current_supply |-> 0, amount |-> 0, curve_ratio |-> 0, amount2 |-> 0]
    /\ pr = <<>>
    /\ pending = <<>>
    /\ log = <<>>

InitializeLaunch(l, creator, m, meta, initial_supply, curve_ratio, fault) ==
    LET r == initialize_launch(St, l, creator, m, meta, initial_supply,
                               curve_ratio, fault) IN
    /\ Commit(r)
    /\ last' = Called("initialize_launch", l, creator, m, initial_supply, r)
    /\ IF r.result = "Ok"
       THEN /\ bought' = bought @@ (l :> 0)
            /\ paid' = paid @@ (l :> [a \in Amounts |-> NoPrice])
       ELSE UNCHANGED history
    /\ UNCHANGED <<overflow_checks, pq, pr, inflight>>

BuyCall(l, buyer, creator_account, m, amount, fault) ==
    LET r == buy_tokens(St, l, buyer, creator_account, m, amount, fault) IN
    /\ Commit(r)
    /\ last' = Called("buy_tokens", l, buyer, m, amount, r)
    /\ bought' = IF r.result = "Ok" THEN [bought EXCEPT ![l] = @ + amount] ELSE bought
    /\ UNCHANGED <<overflow_checks, pq, pr>>

BuyTokens(l, buyer, creator_account, m, amount, fault) ==
    /\ BuyCall(l, buyer, creator_account, m, amount, fault)
    /\ UNCHANGED <<paid, inflight>>

\* the same instruction, with the price of each successful buy remembered
BuyTokensPaid(l, buyer, creator_account, m, amount, fault) ==
    /\ BuyCall(l, buyer, creator_account, m, amount, fault)
    /\ paid' = IF last'.result = "Ok" THEN [paid EXCEPT ![l][amount] = last'.price]
                ELSE paid
    /\ UNCHANGED inflight

Next ==
    \/ \E l \in LaunchIds, creator \in Users, m \in MintIds, meta \in Metas,
          initial_supply \in InitialSupplies, curve_ratio \in Ratios, fault \in Faults :
          InitializeLaunch(l, creator, m, meta, initial_supply, curve_ratio, fault)
    \/ \E l \in LaunchIds, buyer \in Users, creator_account \in Users, m \in MintIds,
          amount \in Amounts, fault \in Faults :
          BuyTokens(l, buyer, creator_account, m, amount, fault)

Spec == Init /\ [][Next]_vars

NextPaid ==
    \/ \E l \in LaunchIds, creator \in Users, m \in MintIds, meta \in Metas,
          initial_supply \in InitialSupplies, curve_ratio \in Ratios, fault \in Faults :
          InitializeLaunch(l, creator, m, meta, initial_supply, curve_ratio, fault)
    \/ \E l \in LaunchIds, buyer \in Users, creator_account \in Users, m \in MintIds,
          amount \in Amounts, fault \in Faults :
          BuyTokensPaid(l, buyer, creator_account, m, amount, fault)

SpecPaid == Init /\ [][NextPaid]_vars

\* ------------------------------------------------ the pricing function alone

\* calculate_price on every u64 triple, and on a second amount for the same
\* supply and ratio
PriceInputs ==
    [current_supply : 0..U64Max, amount : 0..U64Max, curve_ratio : 0..U64Max,
     amount2 : 0..U64Max]

InitPrice ==
    /\ launches = <<>>
    /\ mints = <<>>
    /\ token_accounts = <<>>
    /\ lamports = [u \in Users |-> StartLamports]
    /\ overflow_checks \in BOOLEAN
    /\ last = NoCall
    /\ bought = <<>>
    /\ paid = <<>>
    /\ pq \in PriceInputs
    /\ pr = <<>>
    /\ pending = <<>>
    /\ log = <<>>

EvalPrice ==
    /\ pr = <<>>
    /\ pr' = <<calculate_price(pq.current_supply, pq.amount, pq.curve_ratio),
               calculate_price(pq.current_supply, pq.amount2, pq.curve_ratio)>>
    /\ UNCHANGED <<ledger, overflow_checks, last, history, pq, inflight>>

NextPrice == EvalPrice

SpecPrice == InitPrice /\ [][NextPrice]_vars

\* ------------------------------------- a Launch record with any is_active

\* The stored record has a boolean is_active (line 177); the handlers are
\* also run from the records initialize_launch would have written except
\* that is_active may be false.
InitStored ==
    /\ \E creator \in Users, meta \in Metas, initial_supply \in InitialSupplies,
          curve_ratio \in Ratios, is_active \in BOOLEAN :
          /\ launches = ("L1" :> Launch(creator, "M1", meta[1], meta[2], initial_supply,
                                        initial_supply, curve_ratio, is_active))
          /\ mints = ("M1" :> [supply |-> initial_supply,
                               mint_authority |-> mint_authority("L1")])
          /\ token_accounts = (<<"M1", creator>> :> initial_supply)
    /\ lamports = [u \in Users |-> StartLamports]
    /\ overflow_checks \in BOOLEAN
    /\ last = NoCall
    /\ bought = ("L1" :> 0)
    /\ paid = ("L1" :> [a \in Amounts |-> NoPrice])
    /\ pq = [current_supply |-> 0, amount |-> 0, curve_ratio |-> 0, amount2 |-> 0]
    /\ pr = <<>>
    /\ pending = <<>>
    /\ log = <<>>

SpecStored == InitStored /\ [][Next]_vars

\* ----------------------------------------------- mints made by others

\* BuyTokens takes any existing Mint account (lines 144-145) and any
\* TokenAccount of the buyer for it, and the token program (line 4) serves
\* everybody: a mint can be created, with any key as its authority, and
\* holders can move their units, without this program taking part.
MintIdsOpen == {"M1", "M2"}
InitialSuppliesOpen == {0, MaxInitialSupply, U64Max}
RatiosOpen == {0, MaxRatio}
HalfRange == (U64Max + 1) \div 2
AmountsOpen == {HalfRange}
Authorities == {mint_authority(l) : l \in LaunchIds} \cup {<<"wallet", "alice">>}

\* spl_token initialize_mint, by anybody, naming any key as the authority
CreateMint(m, authority) ==
    /\ m \notin DOMAIN mints
    /\ mints' = mints @@ (m :> [supply |-> 0, mint_authority |-> authority])
    /\ last' = [NoCall EXCEPT !.op = "create_mint", !.mint = m]
    /\ UNCHANGED <<launches, token_accounts, lamports, overflow_checks, history, pq, pr, inflight>>

\* spl_token transfer between two holders' accounts of one mint
TokenTransfer(m, from, to, amount) ==
    /\ from # to
    /\ <<m, from>> \in DOMAIN token_accounts
    /\ <<m, to>> \in DOMAIN token_accounts
    /\ token_accounts[<<m, from>>] >= amount
    /\ token_accounts' = [token_accounts EXCEPT ![<<m, from>>] = @ - amount,
                                                ![<<m, to>>] = @ + amount]
    /\ last' = [NoCall EXCEPT !.op = "token_transfer", !.mint = m, !.caller = from,
                              !.amount = amount]
    /\ UNCHANGED <<launches, mints, lamports, overflow_checks, history, pq, pr, inflight>>

NextOpen ==
    \/ \E l \in LaunchIds, creator \in Users, m \in MintIdsOpen, meta \in Metas,
          initial_supply \in InitialSuppliesOpen, curve_ratio \in RatiosOpen :
          InitializeLaunch(l, creator, m, meta, initial_supply, curve_ratio, "none")
    \/ \E l \in LaunchIds, buyer \in Users, creator_account \in Users,
          m \in MintIdsOpen, amount \in AmountsOpen :
          BuyTokens(l, buyer, creator_account, m, amount, "none")
    \/ \E m \in MintIdsOpen, authority \in Authorities : CreateMint(m, authority)
    \/ \E m \in MintIdsOpen, from \in Users, to \in Users : TokenTransfer(m, from, to, 1)

SpecOpen == Init /\ [][NextOpen]_vars

\* the same environment with paid buys of single amounts
NextLedger ==
    \/ \E l \in LaunchIds, creator \in Users, m \in MintIdsOpen, meta \in Metas,
          initial_supply \in InitialSuppliesOpen, curve_ratio \in {MaxRatio} :
          InitializeLaunch(l, creator, m, meta, initial_supply, curve_ratio, "none")
    \/ \E l \in LaunchIds, buyer \in Users, creator_account \in Users,
          m \in MintIdsOpen, amount \in {MaxAmount} :
          BuyTokens(l, buyer, creator_account, m, amount, "none")
    \/ \E m \in MintIdsOpen, authority \in Authorities : CreateMint(m, authority)
    \/ \E m \in MintIdsOpen, from \in Users, to \in Users : TokenTransfer(m, from, to, 1)

SpecLedger == Init /\ [][NextLedger]_vars

\* ------------------------------------------- buys submitted concurrently

\* Transactions wait until the runtime executes them. The launch account is
\* writable in BuyTokens (lines 134-135), so the runtime runs two buys of one
\* launch one after the other, each whole, in either order. A client
\* submits a buy for a launch and a mint it has read, naming the launch's
\* creator as the account to be paid.
MaxInflight == 2

Removed(seq, i) == [j \in 1..(Len(seq) - 1) |-> IF j < i THEN seq[j] ELSE seq[j + 1]]

SubmitBuy(l, buyer, creator_account, m, amount) ==
    /\ Len(pending) + Len(log) < MaxInflight
    /\ l \in DOMAIN launches /\ m \in DOMAIN mints
    /\ pending' = Append(pending, [launch |-> l, buyer |-> buyer,
                                   creator_account |-> creator_account,
                                   mint |-> m, amount |-> amount])
    /\ UNCHANGED <<ledger, overflow_checks, last, history, pq, pr, log>>

ExecuteBuy(i) ==
    LET c == pending[i]
        known == c.launch \in DOMAIN launches IN
    /\ BuyCall(c.launch, c.buyer, c.creator_account, c.mint, c.amount, "none")
    /\ pending' = Removed(pending, i)
    /\ log' = Append(log,
                 [launch |-> c.launch, amount |-> c.amount, price |-> last'.price,
                  ok |-> last'.result = "Ok",
                  pre |-> IF known THEN launches[c.launch].total_supply ELSE 0,
                  post |-> IF known THEN launches'[c.launch].total_supply ELSE 0])
    /\ UNCHANGED paid

NextInflight ==
    \/ \E l \in LaunchIds, creator \in Users, m \in MintIdsOpen, meta \in Metas,
          initial_supply \in InitialSuppliesOpen, curve_ratio \in RatiosOpen :
          InitializeLaunch(l, creator, m, meta, initial_supply, curve_ratio, "none")
    \/ \E m \in MintIdsOpen, authority \in Authorities : CreateMint(m, authority)
    \/ \E l \in LaunchIds, buyer \in Users, m \in MintIdsOpen, amount \in AmountsOpen :
          SubmitBuy(l, buyer, launches[l].creator, m, amount)
    \/ \E i \in 1..Len(pending) : ExecuteBuy(i)

SpecInflight == Init /\ [][NextInflight]_vars

\* ------------------------------------------------------- two launches

LaunchIdsTwo == {"L1", "L2"}
MintIdsTwo == {"M1", "M2"}

NextTwo ==
    \/ \E l \in LaunchIdsTwo, creator \in Users, m \in MintIdsTwo, meta \in Metas,
          initial_supply \in {0}, curve_ratio \in {MaxRatio} :
          InitializeLaunch(l, creator, m, meta, initial_supply, curve_ratio, "none")
    \/ \E l \in LaunchIdsTwo, buyer \in Users, creator_account \in Users,
          m \in MintIdsTwo, amount \in {MaxAmount} :
          BuyTokens(l, buyer, creator_account, m, amount, "none")

SpecTwo == Init /\ [][NextTwo]_vars

\* ---------------------------------------------------------------- claims

HoldingNow(m, u) == Holding(St, m, u)
HoldingNext(m, u) == Holding(St', m, u)
BuyDone == last.op = "buy_tokens" /\ last.result = "Ok"
BuyFailed == last.op = "buy_tokens" /\ (last.result # "Ok" \/ last.failed # "none")
InitDone == last.op = "initialize_launch" /\ last.result = "Ok"

\* C1. Supply conservation: in every state reached by initialize_launch and
\* any sequence of buy_tokens calls, total_supply is initial_supply plus the
\* sum, as a mathematical integer, of the amounts of the buys that succeeded.
\* (Holds under Spec; broken under SpecOpen by a wrapping increment.)
C1_SupplyConservation ==
    \A l \in DOMAIN launches :
        launches[l].total_supply = launches[l].initial_supply + bought[l]

\* a launch that sold units, just after a buy of a positive amount failed
C1_Witness ==
    /\ last.op = "buy_tokens" /\ last.result # "Ok" /\ last.amount > 0
    /\ last.launch \in DOMAIN launches
    /\ bought[last.launch] > 1

\* C2. calculate_price returns exactly current_supply * curve_ratio * amount
\* when that product fits u64 and fails otherwise, wherever the overflow
\* shows up; it never returns a wrapped or truncated value.
C2_PriceExact ==
    pr # <<>> =>
        LET product == pq.current_supply * pq.curve_ratio * pq.amount IN
        pr[1] = IF product <= U64Max THEN PriceOk(product) ELSE PriceErr

\* an evaluation whose product overflows the wide type, not only the narrow one
C2_Witness ==
    /\ pr # <<>>
    /\ pq.current_supply * pq.curve_ratio * pq.amount > U128Max
    /\ ~pr[1].ok

\* C3. All-or-nothing buy: a buy_tokens call that fails, at whichever step,
\* leaves the Launch records, the currency balances and the asset holdings
\* as they were; so does a call one of whose steps was refused.
C3_AllOrNothing == [][BuyFailed' => UNCHANGED ledger]_vars

\* a buy refused at the mint step after a payment of a positive price
C3_Witness ==
    /\ last.op = "buy_tokens" /\ last.failed = "mint" /\ last.result = "MintFailed"
    /\ last.price > 0 /\ last.amount > 0

\* C4, as claimed. A successful buy of `amount` at pre-buy supply s and ratio
\* r debits the buyer by s * r * amount, credits the creator by the same,
\* credits the buyer `amount` units of the launch's asset and makes
\* total_supply s + amount.
C4_BuyEffects_Claimed ==
    [][BuyDone' =>
        LET l == last'.launch
            b == last'.caller
            c == launches[l].creator
            a == last'.amount
            price == launches[l].total_supply * launches[l].curve_ratio * a
        IN  /\ lamports'[b] = lamports[b] - price
            /\ lamports'[c] = lamports[c] + price
            /\ HoldingNext(launches[l].mint, b) = HoldingNow(launches[l].mint, b) + a
            /\ launches'[l].total_supply = launches[l].total_supply + a
    ]_vars

\* C4 for buys that name the launch's own mint (Spec). As claimed when the
\* buyer is not the launch's creator; when the buyer is the creator the
\* payment is a transfer to self and the balance is unchanged. No other
\* balance changes. (Broken under SpecOpen by a buy naming another mint.)
C4_BuyEffects ==
    [][BuyDone' =>
        LET l == last'.launch
            b == last'.caller
            c == launches[l].creator
            a == last'.amount
            price == launches[l].total_supply * launches[l].curve_ratio * a
        IN  /\ last'.price = price
            /\ b # c => /\ lamports'[b] = lamports[b] - price
                        /\ lamports'[c] = lamports[c] + price
            /\ b = c => lamports'[b] = lamports[b]
            /\ \A u \in Users \ {b, c} : lamports'[u] = lamports[u]
            /\ HoldingNext(launches[l].mint, b) = HoldingNow(launches[l].mint, b) + a
            /\ launches'[l].total_supply = launches[l].total_supply + a
    ]_vars

\* a paid buy by somebody other than the creator
C4_Witness ==
    /\ BuyDone /\ last.price > 0 /\ last.amount > 0
    /\ last.caller # launches[last.launch].creator

\* C5. Inactive rejection: a buy_tokens call against a Launch whose
\* is_active is false fails with LaunchInactive at the first step of the
\* handler, before any price is calculated, and changes no record or balance.
C5_InactiveRejected ==
    [][(/\ last'.op = "buy_tokens"
        /\ last'.launch \in DOMAIN launches
        /\ ~launches[last'.launch].is_active)
       => /\ UNCHANGED ledger
          /\ last'.failed \in {"accounts", "active"}
          /\ last'.failed = "active" => last'.result = "LaunchInactive" /\ last'.price = 0
    ]_vars

\* a buy refused as inactive whose price calculation would have overflowed
C5_Witness ==
    /\ last.op = "buy_tokens" /\ last.result = "LaunchInactive"
    /\ ~launches[last.launch].is_active
    /\ ~calculate_price(launches[last.launch].total_supply, last.amount,
                        launches[last.launch].curve_ratio).ok

\* C6. total_supply is bounded below and monotone: after every step each
\* Launch has total_supply >= initial_supply, and no step makes the
\* total_supply of an existing Launch smaller.
\* (Holds under Spec; broken under SpecOpen by a wrapping increment.)
C6_SupplyMonotone ==
    [][\A l \in DOMAIN launches' :
        /\ launches'[l].total_supply >= launches'[l].initial_supply
        /\ l \in DOMAIN launches =>
              launches'[l].total_supply >= launches[l].total_supply
    ]_vars

\* a launch grown to the largest u64, just after a buy was refused
C6_Witness ==
    /\ BuyFailed /\ last.amount > 0
    /\ last.launch \in DOMAIN launches
    /\ launches[last.launch].total_supply = U64Max
    /\ launches[last.launch].initial_supply < U64Max

\* C7. Price monotonicity across buys: on a Launch with curve_ratio > 0, a
\* successful buy pays at least what the latest earlier successful buy of
\* the same amount paid (hence at least what any earlier one paid).
C7_LaterPaysMore ==
    [][(/\ BuyDone'
        /\ launches[last'.launch].curve_ratio > 0
        /\ paid[last'.launch][last'.amount] # NoPrice)
       => last'.price >= paid[last'.launch][last'.amount]
    ]_vars

\* a second buy of one unit that paid a positive price
C7_Witness ==
    /\ BuyDone /\ last.amount = 1 /\ last.price > 1
    /\ launches[last.launch].curve_ratio > 0
    /\ launches[last.launch].total_supply >= launches[last.launch].initial_supply + 2
    /\ paid[last.launch][1] = last.price

\* C8, as claimed. For any supply and any curve_ratio > 0 calculate_price is
\* strictly increasing in amount wherever both calls succeed.
C8_StrictInAmount_Claimed ==
    (/\ pr # <<>>
     /\ pq.curve_ratio > 0
     /\ pq.amount < pq.amount2
     /\ pr[1].ok /\ pr[2].ok)
    => pr[1].val < pr[2].val

\* C8, amended. The same for any supply > 0 (at supply 0 every price is 0).
C8_StrictInAmount ==
    (/\ pr # <<>>
     /\ pq.current_supply > 0
     /\ pq.curve_ratio > 0
     /\ pq.amount < pq.amount2
     /\ pr[1].ok /\ pr[2].ok)
    => pr[1].val < pr[2].val

\* two successful evaluations at a positive supply and ratio, amounts apart
C8_Witness ==
    /\ pr # <<>>
    /\ pq.current_supply > 1 /\ pq.curve_ratio > 0
    /\ 0 < pq.amount /\ pq.amount < pq.amount2
    /\ pr[1].ok /\ pr[2].ok

\* C9. Postcondition of initialize_launch: after a successful call by c the
\* new Launch has creator c, the new mint, the given name, symbol,
\* initial_supply and curve_ratio, total_supply = initial_supply and
\* is_active = true; c holds exactly initial_supply units of the new asset,
\* which is all of its supply, and nobody else holds any.
C9_InitPostcondition ==
    [][InitDone' =>
        \A meta \in Metas, curve_ratio \in Ratios, fault \in Faults :
            InitializeLaunch(last'.launch, last'.caller, last'.mint, meta,
                             last'.amount, curve_ratio, fault)
            => /\ last'.launch \notin DOMAIN launches
               /\ launches'[last'.launch] =
                      Launch(last'.caller, last'.mint, meta[1], meta[2], last'.amount,
                             last'.amount, curve_ratio, TRUE)
               /\ HoldingNext(last'.mint, last'.caller) = last'.amount
               /\ mints'[last'.mint].supply = last'.amount
               /\ \A u \in Users \ {last'.caller} : HoldingNext(last'.mint, u) = 0
    ]_vars

\* a launch just created with a positive initial supply and ratio
C9_Witness ==
    /\ InitDone /\ last.amount > 0
    /\ launches[last.launch].curve_ratio > 0
    /\ HoldingNow(last.mint, last.caller) = last.amount

\* C10. Atomic initialization: an initialize_launch call that fails changes
\* no record or balance; when the initial mint is refused, after the Launch
\* fields were written, no Launch exists for that key afterwards, the mint
\* does not exist and the creator holds nothing of it.
C10_InitAtomic ==
    [][(/\ last'.op = "initialize_launch"
        /\ (last'.result # "Ok" \/ last'.failed # "none"))
       => /\ UNCHANGED ledger
          /\ last'.failed = "mint" =>
                /\ last'.launch \notin DOMAIN launches'
                /\ last'.mint \notin DOMAIN mints'
                /\ HoldingNext(last'.mint, last'.caller) = 0
    ]_vars

\* an initialization refused at the mint of a positive initial supply
C10_Witness ==
    /\ last.op = "initialize_launch" /\ last.failed = "mint" /\ last.amount > 0
    /\ last.launch \notin DOMAIN launches

\* C11. Pricing depends only on the Launch record: whatever the asset
\* ledger holds (after transfers between holders, or with a mint whose
\* supply differs from the record), a buy of `amount` that reaches the
\* pricing step gets the price, or the pricing error, that total_supply,
\* curve_ratio and amount determine.
C11_PriceFromRecord ==
    [][(last'.op = "buy_tokens" /\ last'.failed \notin {"accounts", "active"}) =>
        LET l == last'.launch
            p == calculate_price(launches[l].total_supply, last'.amount,
                                 launches[l].curve_ratio)
        IN  IF p.ok THEN last'.price = p.val /\ last'.failed # "price"
            ELSE last'.failed = "price" /\ last'.result = "InvalidPriceCalculation"
    ]_vars

\* a paid buy made while the creator has given units away and the supply of
\* the launch's mint differs from the record's total_supply
C11_Witness ==
    /\ BuyDone /\ last.price > 0
    /\ HoldingNow(launches[last.launch].mint, launches[last.launch].creator)
           < launches[last.launch].initial_supply
    /\ mints[launches[last.launch].mint].supply # launches[last.launch].total_supply

\* C12. Serialized buys: of two buy_tokens calls on one Launch that were in
\* flight together and both succeeded, in whichever order they were run, the
\* later is priced at the earlier one's post-buy total_supply, not at the
\* earlier one's pre-buy total_supply, and the final total_supply is the
\* first pre-buy total_supply plus both amounts.
C12_SerializedBuys ==
    (/\ Len(log) = 2
     /\ log[1].ok /\ log[2].ok
     /\ log[1].launch = log[2].launch)
    => /\ log[2].pre = log[1].post
       /\ log[2].pre # log[1].pre
       /\ log[2].price = log[2].pre * launches[log[2].launch].curve_ratio * log[2].amount
       /\ log[2].post = log[1].pre + log[1].amount + log[2].amount

\* C13. A buy mints only the launch's own asset: every successful
\* buy_tokens on a Launch credits `amount` units of the asset recorded in
\* its mint field to the buyer, and changes the supply of no other asset
\* while it increments total_supply.
C13_MintsOwnAsset ==
    [][BuyDone' =>
        LET l == last'.launch
            own == launches[l].mint
        IN  /\ HoldingNext(own, last'.caller) = HoldingNow(own, last'.caller) + last'.amount
            /\ mints'[own].supply = mints[own].supply + last'.amount
            /\ \A m \in DOMAIN mints \ {own} : mints'[m].supply = mints[m].supply
    ]_vars

\* C14. A Launch is always active: in every state reached by
\* initialize_launch and any sequence of buy_tokens calls every existing
\* Launch has is_active = true, and no call has ended with LaunchInactive.
C14_AlwaysActive ==
    /\ \A l \in DOMAIN launches : launches[l].is_active
    /\ last.result # "LaunchInactive"

\* a launch that has sold units, just after a buy on it failed
C14_Witness ==
    /\ BuyFailed
    /\ last.launch \in DOMAIN launches
    /\ launches[last.launch].total_supply > launches[last.launch].initial_supply
    /\ launches[last.launch].is_active

\* C15. Frame of buy_tokens: a buy_tokens call, successful or not, creates
\* and deletes no Launch, leaves creator, mint, name, symbol, initial_supply,
\* curve_ratio and is_active of its Launch as they were (total_supply is the
\* only field it can change) and changes no field of any other Launch.
C15_BuyFrame ==
    [][last'.op = "buy_tokens" =>
        /\ DOMAIN launches' = DOMAIN launches
        /\ \A l \in DOMAIN launches :
              IF l = last'.launch
              THEN launches'[l] =
                       [launches[l] EXCEPT !.total_supply = launches'[l].total_supply]
              ELSE launches'[l] = launches[l]
    ]_vars

\* a successful buy on one launch while another launch exists
C15_Witness ==
    /\ BuyDone /\ last.amount > 0
    /\ \E l \in DOMAIN launches : l # last.launch
    /\ launches[last.launch].total_supply > launches[last.launch].initial_supply

\* C16. Step order and first-failure propagation in buy_tokens: the call
\* ends at the first step that fails, in the order active check, price,
\* payment, mint, supply increment. The payment is attempted only when the
\* launch is active and the price was calculated, the mint only when the
\* payment went through, the increment only when the mint went through; a
\* buy whose price calculation overflows ends with InvalidPriceCalculation
\* and no payment, whatever the buyer's funds.
C16_StepOrder ==
    [][\A creator_account \in Users, fault \in Faults :
        (/\ last'.op = "buy_tokens"
         /\ last'.launch \in DOMAIN launches
         /\ last'.mint \in DOMAIN mints
         /\ BuyTokens(last'.launch, last'.caller, creator_account, last'.mint,
                      last'.amount, fault))
        => LET l == last'.launch
               f == last'.failed
               active == launches[l].is_active
               p == calculate_price(launches[l].total_supply, last'.amount,
                                    launches[l].curve_ratio)
               paid_ok == p.ok /\ system_transfer(St, last'.caller, launches[l].creator,
                                                   {last'.caller, creator_account},
                                                   p.val).ok
           IN  /\ ~active => f = "active" /\ last'.result = "LaunchInactive"
               /\ (active /\ ~p.ok) =>
                      /\ f = "price" /\ last'.result = "InvalidPriceCalculation"
                      /\ lamports' = lamports
               /\ (active /\ p.ok /\ ~paid_ok) =>
                      f = "transfer" /\ last'.result = "TransferFailed"
               /\ (active /\ paid_ok /\ fault = "mint") =>
                      f = "mint" /\ last'.result = "MintFailed"
               /\ f = "transfer" => active /\ p.ok
               /\ f = "mint" => active /\ paid_ok
               /\ f = "add_supply" => active /\ paid_ok /\ fault # "mint"
               /\ f = "none" => active /\ paid_ok /\ fault # "mint"
    ]_vars

\* a buy on an active launch whose price overflowed, by a buyer who could
\* not have paid a price that large either
C16_Witness ==
    /\ last.op = "buy_tokens" /\ last.failed = "price"
    /\ last.result = "InvalidPriceCalculation"
    /\ launches[last.launch].is_active
    /\ lamports[last.caller] < launches[last.launch].total_supply
                                   * launches[last.launch].curve_ratio * last.amount

\* C17. A Launch is created exactly once: an initialize_launch call naming
\* a launch slot or a mint that is already in use fails and changes no
\* record or balance; no step deletes a Launch or changes its creator,
\* curve_ratio or initial_supply; and once total_supply has moved away from
\* initial_supply no step brings it back to initial_supply.
C17_CreatedOnce ==
    [][/\ (/\ last'.op = "initialize_launch"
            /\ (last'.launch \in DOMAIN launches \/ last'.mint \in DOMAIN mints))
           => /\ last'.result # "Ok"
              /\ last'.failed = "accounts"
              /\ UNCHANGED ledger
       /\ \A l \in DOMAIN launches :
              /\ l \in DOMAIN launches'
              /\ launches'[l].creator = launches[l].creator
              /\ launches'[l].curve_ratio = launches[l].curve_ratio
              /\ launches'[l].initial_supply = launches[l].initial_supply
              /\ launches[l].total_supply # launches[l].initial_supply
                     => launches'[l].total_supply # launches'[l].initial_supply
    ]_vars

RECURSIVE HeldBy(_, _)
HeldBy(m, holders) ==
    IF holders = {} THEN 0
    ELSE LET u == CHOOSE x \in holders : TRUE IN
         HoldingNow(m, u) + HeldBy(m, holders \ {u})

\* C18. Ledger and record agree: in every state reached by initialize_launch
\* and any sequence of buy_tokens calls, with transfers between holders in
\* between, the units of a launch's asset held over all holding accounts
\* add up to that Launch's total_supply.
C18_LedgerAgrees ==
    \A l \in DOMAIN launches : HeldBy(launches[l].mint, Users) = launches[l].total_supply

\* C19. The supply increment never wraps: a buy_tokens call whose pre-buy
\* total_supply plus amount exceeds the largest u64 does not succeed, and
\* leaves every record and balance as it was, also when the price
\* calculation passes.
C19_NoWrap ==
    [][(/\ last'.op = "buy_tokens"
        /\ last'.launch \in DOMAIN launches
        /\ launches[last'.launch].total_supply + last'.amount > U64Max)
       => /\ last'.result # "Ok"
          /\ UNCHANGED ledger
    ]_vars

====
